---- MODULE Spec2Model ----
(***************************************************************************)
(* Agent orchestration core of sim_agent: the command/event records, the   *)
(* BaseAgent and SQLBaseAgent state machines, the answer handler and the   *)
(* MessageBus that drives one request to completion.                       *)
(*                                                                         *)
(* Optional[...] fields are modelled as sequences of length at most one:   *)
(* None is <<>> and a present value x is <<x>>.                            *)
(***************************************************************************)
EXTENDS Integers, Sequences, FiniteSets, TLC

None == <<>>
Some(x) == <<x>>
Val(o) == o[1]

(* ---------------- bounds of the model ---------------- *)
MaxCalls == 9        \* adapter.answer calls recorded per request
MaxScore == 2            \* rerank scores are drawn from 0..MaxScore
MaxRanking == 3          \* n_ranking_candidates is drawn from 0..MaxRanking
MaxDeviations == 1   \* adapter answers of another type or q_id than asked, per request

(* ---------------- commands (domain/commands.py) ---------------- *)
PipelineTypes ==
    <<"Question", "Check", "Retrieve", "Rerank", "Enhance", "UseTools",
      "LLMResponse", "FinalCheck">>
CommandTypes == {PipelineTypes[i] : i \in 1..Len(PipelineTypes)}
NoType == "None"

Command(type, question, q_id) ==
    [type |-> type, question |-> question, q_id |-> q_id,
     approved |-> None, response |-> None, candidates |-> None,
     memory |-> None, summary |-> None]
NoCommand == Command(NoType, "", "")

(* ---------------- events (domain/events.py) ---------------- *)
Event(type, question, q_id) ==
    [type |-> type, question |-> question, q_id |-> q_id,
     response |-> None, exception |-> None, approved |-> None,
     summary |-> None]
NoEvent == Event(NoType, "", "")

Response(question, response, q_id) ==
    [Event("Response", question, q_id) EXCEPT !.response = Some(response)]
RejectedRequest(question, response, q_id) ==
    [Event("RejectedRequest", question, q_id) EXCEPT !.response = Some(response)]
FailedRequest(question, exception, q_id) ==
    [Event("FailedRequest", question, q_id) EXCEPT !.exception = Some(exception)]
Evaluation(response, question, q_id, approved, summary) ==
    [Event("Evaluation", question, q_id) EXCEPT
        !.response = Some(response), !.approved = Some(approved),
        !.summary = Some(summary)]

EventTypes ==
    {"Response", "Evaluation", "FailedRequest", "RejectedRequest", "RejectedAnswer"}

\* every class of events.py; StatusUpdate and EndOfEvent have no entry in
\* EVENT_HANDLERS
EventClasses == EventTypes \cup {"StatusUpdate", "EndOfEvent"}

DuplicateMessage == "Internal error: Duplicate command"

(* ---------------- BaseAgent (domain/model.py) ---------------- *)
\* the prompt file holds the four templates the agent looks up
base_prompts == {"finalize", "enhance", "guardrails.pre_check", "guardrails.post_check"}

\* placeholder substitution: the template name applied to the question
populate_template(prompt, question) == prompt \o "(" \o question \o ")"

BaseAgent(question) ==
    [question |-> question.question, q_id |-> question.q_id,
     enhancement |-> None, tool_answer |-> NoCommand, response |-> NoEvent,
     agent_memory |-> None, is_answered |-> FALSE,
     previous_command |-> NoType, events |-> <<>>, evaluation |-> NoEvent]

\* outcome of a method call: the object after it, the value returned, the
\* exception raised ("none" when it returned)
Return(self, value) == [agent |-> self, ret |-> value, raised |-> "none"]
Raise(self, exc) == [agent |-> self, ret |-> NoCommand, raised |-> exc]

create_prompt(self, command, memory) ==
    CASE command.type = "UseTools" ->
            IF "finalize" \in base_prompts
            THEN [prompt |-> populate_template("finalize", command.question), raised |-> "none"]
            ELSE [prompt |-> "", raised |-> "ValueError"]
      [] command.type = "Rerank" ->
            IF "enhance" \notin base_prompts
            THEN [prompt |-> "", raised |-> "ValueError"]
            ELSE IF command.candidates = None
            THEN [prompt |-> "", raised |-> "TypeError"]
            ELSE [prompt |-> populate_template("enhance", command.question), raised |-> "none"]
      [] command.type = "Question" ->
            IF "guardrails.pre_check" \in base_prompts
            THEN [prompt |-> populate_template("guardrails.pre_check", command.question), raised |-> "none"]
            ELSE [prompt |-> "", raised |-> "ValueError"]
      [] command.type = "LLMResponse" ->
            IF "guardrails.post_check" \notin base_prompts
            THEN [prompt |-> "", raised |-> "ValueError"]
            ELSE IF memory = None
            THEN [prompt |-> "", raised |-> "TypeError"]
            ELSE [prompt |-> populate_template("guardrails.post_check", command.question), raised |-> "none"]
      [] OTHER -> [prompt |-> "", raised |-> "ValueError"]

check_question(self, command) ==
    LET p == create_prompt(self, command, None) IN
    IF p.raised # "none" THEN Raise(self, p.raised)
    ELSE Return(self, Command("Check", p.prompt, command.q_id))

\* change_check building the Retrieve from the command's question (the prompt)
change_check_prompt(self, command) ==
    IF command.approved = Some(TRUE)
    THEN Return(self, Command("Retrieve", command.question, command.q_id))
    ELSE LET answered == [self EXCEPT !.is_answered = TRUE] IN
         IF command.response = None
         THEN Raise(answered, "ValidationError")
         ELSE LET new_command ==
                      RejectedRequest(self.question, Val(command.response), command.q_id)
              IN Return([answered EXCEPT !.response = new_command], new_command)

\* change_check returning the rejection without storing it in self.response
change_check_unrecorded(self, command) ==
    IF command.approved = Some(TRUE)
    THEN Return(self, Command("Retrieve", self.question, command.q_id))
    ELSE LET answered == [self EXCEPT !.is_answered = TRUE] IN
         IF command.response = None
         THEN Raise(answered, "ValidationError")
         ELSE Return(answered,
                     RejectedRequest(self.question, Val(command.response), command.q_id))

change_check(self, command) ==
    IF command.approved = Some(TRUE)
    THEN Return(self, Command("Retrieve", self.question, command.q_id))
    ELSE LET answered == [self EXCEPT !.is_answered = TRUE] IN
         IF command.response = None
         THEN Raise(answered, "ValidationError")
         ELSE LET new_command ==
                      RejectedRequest(self.question, Val(command.response), command.q_id)
              IN Return([answered EXCEPT !.response = new_command], new_command)

\* change_retrieve handing the candidates straight to the Enhance stage
change_retrieve_skipping_rerank(self, command) ==
    Return(self, [Command("Enhance", command.question, command.q_id)
                    EXCEPT !.candidates = command.candidates])

change_retrieve(self, command) ==
    Return(self, [Command("Rerank", command.question, command.q_id)
                    EXCEPT !.candidates = command.candidates])

change_rerank(self, command) ==
    LET p == create_prompt(self, command, None) IN
    IF p.raised # "none" THEN Raise(self, p.raised)
    ELSE Return(self, Command("Enhance", p.prompt, command.q_id))

\* change_question passing the question on without storing the enhancement
change_question_unstored(self, command) ==
    Return(self, Command("UseTools",
                         IF command.response = None THEN self.question
                         ELSE Val(command.response),
                         command.q_id))

change_question(self, command) ==
    LET enhanced == [self EXCEPT !.enhancement =
                        IF command.response = None THEN Some(self.question)
                        ELSE command.response]
    IN Return(enhanced, Command("UseTools", Val(enhanced.enhancement), command.q_id))

\* change_use_tools going on to the final check when the tools gave no response
change_use_tools_by_response(self, command) ==
    LET stored == [self EXCEPT !.tool_answer = command,
                               !.agent_memory = command.memory]
        p == create_prompt(stored, command, None)
    IN IF p.raised # "none" THEN Raise(stored, p.raised)
       ELSE Return(stored, Command(IF command.response = None THEN "FinalCheck"
                                   ELSE "LLMResponse", p.prompt, command.q_id))

change_use_tools(self, command) ==
    LET stored == [self EXCEPT !.tool_answer = command,
                               !.agent_memory = command.memory]
        p == create_prompt(stored, command, None)
    IN IF p.raised # "none" THEN Raise(stored, p.raised)
       ELSE Return(stored, Command("LLMResponse", p.prompt, command.q_id))

\* change_llm_response answering under the prompt the LLM was given
change_llm_response_prompted(self, command) ==
    IF self.tool_answer.type = NoType
    THEN Raise(self, "ValueError")
    ELSE IF command.response = None
    THEN Raise(self, "ValidationError")
    ELSE LET responded == [self EXCEPT !.response =
                              Response(command.question, Val(command.response), self.q_id)]
             p == create_prompt(responded, command, responded.agent_memory)
         IN IF p.raised # "none" THEN Raise(responded, p.raised)
            ELSE Return(responded, Command("FinalCheck", p.prompt, command.q_id))

\* change_llm_response concluding the agent once the response is stored
change_llm_response_answering(self, command) ==
    IF self.tool_answer.type = NoType
    THEN Raise(self, "ValueError")
    ELSE IF command.response = None
    THEN Raise(self, "ValidationError")
    ELSE LET responded == [self EXCEPT !.is_answered = TRUE, !.response =
                              Response(self.question, Val(command.response), self.q_id)]
             p == create_prompt(responded, command, responded.agent_memory)
         IN IF p.raised # "none" THEN Raise(responded, p.raised)
            ELSE Return(responded, Command("FinalCheck", p.prompt, command.q_id))

\* change_llm_response without its tool_answer precondition
change_llm_response_unchecked(self, command) ==
    IF command.response = None
    THEN Raise(self, "ValidationError")
    ELSE LET responded == [self EXCEPT !.response =
                              Response(self.question, Val(command.response), self.q_id)]
             p == create_prompt(responded, command, responded.agent_memory)
         IN IF p.raised # "none" THEN Raise(responded, p.raised)
            ELSE Return(responded, Command("FinalCheck", p.prompt, command.q_id))

change_llm_response(self, command) ==
    IF self.tool_answer.type = NoType
    THEN Raise(self, "ValueError")
    ELSE IF command.response = None
    THEN Raise(self, "ValidationError")
    ELSE LET responded == [self EXCEPT !.response =
                              Response(self.question, Val(command.response), self.q_id)]
             p == create_prompt(responded, command, responded.agent_memory)
         IN IF p.raised # "none" THEN Raise(responded, p.raised)
            ELSE Return(responded, Command("FinalCheck", p.prompt, command.q_id))

final_check(self, command) ==
    LET answered == [self EXCEPT !.is_answered = TRUE] IN
    IF self.response.response = None
    THEN Raise(answered, "AttributeError")
    ELSE IF command.approved = None \/ command.summary = None
    THEN Raise(answered, "ValidationError")
    ELSE Return([answered EXCEPT !.evaluation =
                    Evaluation(Val(self.response.response), self.question, self.q_id,
                               Val(command.approved), Val(command.summary))],
                NoCommand)

\* _update_state dropping the tool answer along with the duplicate
_update_state_forgetting_tools(self, response) ==
    IF self.previous_command = response.type
    THEN [self EXCEPT !.is_answered = TRUE,
                      !.tool_answer = NoCommand,
                      !.response = FailedRequest(self.question, DuplicateMessage, self.q_id)]
    ELSE [self EXCEPT !.previous_command = response.type]

\* _update_state recording the failure without concluding the agent
_update_state_unanswered(self, response) ==
    IF self.previous_command = response.type
    THEN [self EXCEPT !.response =
                         FailedRequest(self.question, DuplicateMessage, self.q_id)]
    ELSE [self EXCEPT !.previous_command = response.type]

_update_state(self, response) ==
    IF self.previous_command = response.type
    THEN [self EXCEPT !.is_answered = TRUE,
                      !.response = FailedRequest(self.question, DuplicateMessage, self.q_id)]
    ELSE [self EXCEPT !.previous_command = response.type]

\* update answering None to a command type it has no branch for
update_skipping_unsupported(self, command) ==
    LET s == _update_state(self, command) IN
    IF s.is_answered THEN Return(s, NoCommand)
    ELSE CASE command.type = "Question" -> check_question(s, command)
           [] command.type = "Check" -> change_check(s, command)
           [] command.type = "Retrieve" -> change_retrieve(s, command)
           [] command.type = "Rerank" -> change_rerank(s, command)
           [] command.type = "Enhance" -> change_question(s, command)
           [] command.type = "UseTools" -> change_use_tools(s, command)
           [] command.type = "LLMResponse" -> change_llm_response(s, command)
           [] command.type = "FinalCheck" -> final_check(s, command)
           [] OTHER -> Return(s, NoCommand)

\* update without the "if self.is_answered: return None" test
update_ignoring_answered(self, command) ==
    LET s == _update_state(self, command) IN
    CASE command.type = "Question" -> check_question(s, command)
      [] command.type = "Check" -> change_check(s, command)
      [] command.type = "Retrieve" -> change_retrieve(s, command)
      [] command.type = "Rerank" -> change_rerank(s, command)
      [] command.type = "Enhance" -> change_question(s, command)
      [] command.type = "UseTools" -> change_use_tools(s, command)
      [] command.type = "LLMResponse" -> change_llm_response(s, command)
      [] command.type = "FinalCheck" -> final_check(s, command)
      [] OTHER -> Raise(s, "NotImplementedError")

\* update reporting a concluded agent, the duplicate included, as an exception
update_raising_on_duplicate(self, command) ==
    LET s == _update_state(self, command) IN
    IF s.is_answered THEN Raise(s, "ValueError")
    ELSE CASE command.type = "Question" -> check_question(s, command)
           [] command.type = "Check" -> change_check(s, command)
           [] command.type = "Retrieve" -> change_retrieve(s, command)
           [] command.type = "Rerank" -> change_rerank(s, command)
           [] command.type = "Enhance" -> change_question(s, command)
           [] command.type = "UseTools" -> change_use_tools(s, command)
           [] command.type = "LLMResponse" -> change_llm_response(s, command)
           [] command.type = "FinalCheck" -> final_check(s, command)
           [] OTHER -> Raise(s, "NotImplementedError")

update(self, command) ==
    LET s == _update_state(self, command) IN
    IF s.is_answered THEN Return(s, NoCommand)
    ELSE CASE command.type = "Question" -> check_question(s, command)
           [] command.type = "Check" -> change_check(s, command)
           [] command.type = "Retrieve" -> change_retrieve(s, command)
           [] command.type = "Rerank" -> change_rerank(s, command)
           [] command.type = "Enhance" -> change_question(s, command)
           [] command.type = "UseTools" -> change_use_tools(s, command)
           [] command.type = "LLMResponse" -> change_llm_response(s, command)
           [] command.type = "FinalCheck" -> final_check(s, command)
           [] OTHER -> Raise(s, "NotImplementedError")

(* ---------------- SQLBaseAgent (domain/sql_model.py) ---------------- *)
SQLPipelineTypes ==
    <<"SQLQuestion", "SQLCheck", "SQLGrounding", "SQLFilter", "SQLJoinInference",
      "SQLAggregation", "SQLConstruction", "SQLValidation">>
SQLCommandTypes == {SQLPipelineTypes[i] : i \in 1..Len(SQLPipelineTypes)}

SQLCommand(type, question, q_id) ==
    [type |-> type, question |-> question, q_id |-> q_id,
     approved |-> None, response |-> None, summary |-> None,
     schema_info |-> None, column_mappings |-> None, table_mappings |-> None,
     conditions |-> None, filter_results |-> None, joins |-> None,
     aggregations |-> None, group_by_columns |-> None,
     is_aggregation_query |-> None]

Query(response, question, q_id, approved, summary) ==
    [Event("Query", question, q_id) EXCEPT
        !.response = Some(response), !.approved = approved, !.summary = summary]

SQLBaseAgent(question) ==
    [question |-> question.question, q_id |-> question.q_id,
     events |-> <<>>, is_answered |-> FALSE, evaluation |-> NoEvent,
     previous_command |-> NoType, response |-> NoEvent,
     send_response |-> NoEvent, query |-> NoEvent,
     constructions |-> SQLCommand("SQLConstruction", question.question, question.q_id)]

sql_create_prompt(self, command) ==
    CASE command.type = "SQLCheck" -> populate_template("check", command.question)
      [] command.type = "SQLGrounding" -> populate_template("ground", command.question)
      [] command.type = "SQLFilter" -> populate_template("filter", command.question)
      [] command.type = "SQLJoinInference" -> populate_template("join", command.question)
      [] command.type = "SQLAggregation" -> populate_template("aggregate", command.question)
      [] command.type = "SQLConstruction" -> populate_template("construct", command.question)
      [] command.type = "SQLValidation" -> populate_template("validate", command.question)

WithPrompt(self, new_command) ==
    [new_command EXCEPT !.question = sql_create_prompt(self, new_command)]

prepare_guardrails_check(self, command) ==
    LET saved == [self EXCEPT !.constructions.schema_info = command.schema_info]
    IN Return(saved, WithPrompt(saved, SQLCommand("SQLCheck", command.question, command.q_id)))

\* a rejection that concludes the agent without recording the RejectedRequest
prepare_grounding_unrecorded(self, command) ==
    IF command.approved = Some(TRUE)
    THEN Return(self, WithPrompt(self, SQLCommand("SQLGrounding", command.question, command.q_id)))
    ELSE Return([self EXCEPT !.is_answered = TRUE], NoCommand)

\* on approval the schema is copied onto the incoming SQLCheck, an object of the
\* caller, and the SQLGrounding command is built from question and q_id alone
prepare_grounding(self, command) ==
    IF command.approved = Some(TRUE)
    THEN Return(self, WithPrompt(self, SQLCommand("SQLGrounding", command.question, command.q_id)))
    ELSE LET answered == [self EXCEPT !.is_answered = TRUE] IN
         IF command.response = None
         THEN Raise(answered, "ValidationError")
         ELSE LET new_command ==
                      RejectedRequest(self.question, Val(command.response), command.q_id)
              IN Return([answered EXCEPT !.send_response = new_command,
                                         !.response = new_command], new_command)

prepare_filter(self, command) ==
    LET saved == [self EXCEPT !.constructions.column_mappings = command.column_mappings,
                              !.constructions.table_mappings = command.table_mappings]
    IN Return(saved, WithPrompt(saved, SQLCommand("SQLFilter", command.question, command.q_id)))

\* a filter stage that forgets to store the conditions in the accumulator
prepare_join_inference_dropping(self, command) ==
    Return(self, WithPrompt(self,
            [SQLCommand("SQLJoinInference", command.question, command.q_id) EXCEPT
                !.table_mappings = self.constructions.table_mappings,
                !.schema_info = self.constructions.schema_info]))

prepare_join_inference(self, command) ==
    LET saved == [self EXCEPT !.constructions.filter_results = command.conditions]
    IN Return(saved, WithPrompt(saved,
            [SQLCommand("SQLJoinInference", command.question, command.q_id) EXCEPT
                !.table_mappings = saved.constructions.table_mappings,
                !.schema_info = saved.constructions.schema_info]))

prepare_aggregation(self, command) ==
    LET saved == [self EXCEPT !.constructions.joins = command.joins]
    IN Return(saved, WithPrompt(saved, SQLCommand("SQLAggregation", command.question, command.q_id)))

prepare_construction(self, command) ==
    LET saved == [self EXCEPT
                    !.constructions.aggregations = command.aggregations,
                    !.constructions.group_by_columns = command.group_by_columns,
                    !.constructions.is_aggregation_query = command.is_aggregation_query]
    IN Return(saved, WithPrompt(saved, saved.constructions))

prepare_validation(self, command) ==
    Return(self, WithPrompt(self, SQLCommand("SQLValidation", command.question, command.q_id)))

prepare_execution(self, command) ==
    LET answered == [self EXCEPT !.is_answered = TRUE] IN
    IF self.response.response = None
    THEN Raise(answered, "AttributeError")
    ELSE Return([answered EXCEPT !.query =
                    Query(Val(self.response.response), self.question, self.q_id,
                          command.approved, command.summary)], NoCommand)

sql_update_state(self, response) ==
    IF self.previous_command = response.type
    THEN [self EXCEPT !.is_answered = TRUE,
                      !.response = FailedRequest(self.question, DuplicateMessage, self.q_id)]
    ELSE [self EXCEPT !.previous_command = response.type]

\* a dispatch that sends SQLGrounding straight to the join stage
sql_update_skipping_filter(self, command) ==
    LET s == sql_update_state(self, command) IN
    IF s.is_answered THEN Return(s, NoCommand)
    ELSE CASE command.type = "SQLQuestion" -> prepare_guardrails_check(s, command)
           [] command.type = "SQLCheck" -> prepare_grounding(s, command)
           [] command.type = "SQLGrounding" -> prepare_join_inference(s, command)
           [] command.type = "SQLFilter" -> prepare_join_inference(s, command)
           [] command.type = "SQLJoinInference" -> prepare_aggregation(s, command)
           [] command.type = "SQLAggregation" -> prepare_construction(s, command)
           [] command.type = "SQLConstruction" -> prepare_validation(s, command)
           [] command.type = "SQLValidation" -> prepare_execution(s, command)
           [] OTHER -> Raise(s, "NotImplementedError")

sql_update(self, command) ==
    LET s == sql_update_state(self, command) IN
    IF s.is_answered THEN Return(s, NoCommand)
    ELSE CASE command.type = "SQLQuestion" -> prepare_guardrails_check(s, command)
           [] command.type = "SQLCheck" -> prepare_grounding(s, command)
           [] command.type = "SQLGrounding" -> prepare_filter(s, command)
           [] command.type = "SQLFilter" -> prepare_join_inference(s, command)
           [] command.type = "SQLJoinInference" -> prepare_aggregation(s, command)
           [] command.type = "SQLAggregation" -> prepare_construction(s, command)
           [] command.type = "SQLConstruction" -> prepare_validation(s, command)
           [] command.type = "SQLValidation" -> prepare_execution(s, command)
           [] OTHER -> Raise(s, "NotImplementedError")

(* ---------------- AgentAdapter.rerank (adapters/adapter.py) ---------------- *)
\* a KBResponse as the Retrieve stage delivers it, with its retrieval score
KBResponse(id, score) ==
    [id |-> id, description |-> "about " \o id, score |-> score,
     tag |-> "tag", name |-> id]

\* RerankResponse(**response, **temp): the candidate without its description
\* and retrieval score, with the question, text and score of the ranking
RerankResponse(question, candidate, score) ==
    [id |-> candidate.id, question |-> question, text |-> candidate.description,
     score |-> score, tag |-> candidate.tag, name |-> candidate.name]

\* the candidates in the order they came in, not sorted at all
sorted_unsorted(candidates) == candidates

\* sorted(candidates, key=lambda x: -x.score): descending by score, candidates
\* of equal score in the order they came in
RECURSIVE sorted(_)
sorted(candidates) ==
    IF candidates = <<>> THEN <<>>
    ELSE LET n == Len(candidates)
             x == candidates[n]
             rest == sorted(SubSeq(candidates, 1, n - 1))
             k == Cardinality({i \in 1..Len(rest) : rest[i].score >= x.score})
         IN SubSeq(rest, 1, k) \o <<x>> \o SubSeq(rest, k + 1, Len(rest))

\* candidates[:n] for n >= 0
Slice(candidates, n) ==
    SubSeq(candidates, 1, IF n < Len(candidates) THEN n ELSE Len(candidates))

\* rerank(self, command): self.rag.rerank scores every candidate (None when the
\* ranking service fails), the scored candidates are sorted and cut
rerank(self, command) ==
    IF command.candidates = None
    THEN Raise(self, "TypeError")
    ELSE LET incoming == Val(command.candidates)
             response == [i \in 1..Len(incoming) |->
                             self.rag.ranking[incoming[i].description]]
         IN IF \E i \in 1..Len(incoming) : response[i] = None
            THEN Raise(self, "TypeError")
            ELSE LET candidates ==
                         [i \in 1..Len(incoming) |->
                             RerankResponse(command.question, incoming[i],
                                            Val(response[i]))]
                 IN Return(self, [command EXCEPT !.candidates =
                        Some(Slice(sorted(candidates), self.rag.n_ranking_candidates))])

(* ---------------- inputs ---------------- *)
UserQuestion == "q"
QIds == {"s1", "s2"}
Texts == {None, Some("text")}
Approvals == {None, Some(TRUE), Some(FALSE)}
Lists == {None, Some(<<>>)}
OtherType == "EndOfEvent"   \* a message type outside both transition tables

\* what an adapter can hand back for a stage of the given type
Filled(type, question, q_id) ==
    LET c == Command(type, question, q_id) IN
    CASE type = "Check" ->
            {[c EXCEPT !.approved = a, !.response = t] : a \in Approvals, t \in Texts}
      [] type \in {"Retrieve", "Rerank"} ->
            {[c EXCEPT !.candidates = l] : l \in Lists}
      [] type \in {"Enhance", "LLMResponse"} ->
            {[c EXCEPT !.response = t] : t \in Texts}
      [] type = "UseTools" ->
            {[c EXCEPT !.response = t, !.memory = l] : t \in Texts, l \in Lists}
      [] type = "FinalCheck" ->
            {[c EXCEPT !.approved = a, !.summary = t] : a \in Approvals, t \in Texts}
      [] OTHER -> {c}

\* the partial result a stage's answer carries under the given field, if any
Part(present, name) == IF present THEN Some(name) ELSE None

SQLFilled(type, question, q_id) ==
    LET c == SQLCommand(type, question, q_id) IN
    CASE type = "SQLQuestion" ->
            {[c EXCEPT !.schema_info = Part(p, "schema_info")] : p \in BOOLEAN}
      [] type = "SQLCheck" ->
            {[c EXCEPT !.approved = a, !.response = t] : a \in Approvals, t \in Texts}
      [] type = "SQLGrounding" ->
            {[c EXCEPT !.column_mappings = Part(p, "column_mappings"),
                       !.table_mappings = Part(p, "table_mappings")] : p \in BOOLEAN}
      [] type = "SQLFilter" ->
            {[c EXCEPT !.conditions = Part(p, "conditions")] : p \in BOOLEAN}
      [] type = "SQLJoinInference" ->
            {[c EXCEPT !.joins = Part(p, "joins")] : p \in BOOLEAN}
      [] type = "SQLAggregation" ->
            {[c EXCEPT !.aggregations = Part(p, "aggregations"),
                       !.group_by_columns = Part(p, "group_by_columns"),
                       !.is_aggregation_query = Part(p, "is_aggregation_query")]
                : p \in BOOLEAN}
      [] type = "SQLValidation" ->
            {[c EXCEPT !.approved = a, !.summary = t] : a \in Approvals, t \in Texts}
      [] OTHER -> {c}

(* ---------------- handlers (service_layer/handlers.py) ---------------- *)
\* a validation that accepts every question text
FalsyNever(text) == FALSE

Falsy(text) == text = ""    \* "not command.question"

\* an event handler bound to its notification sink by bootstrap.inject_dependencies
Handler(fn, sink) == [fn |-> fn, sink |-> sink]

\* the registry of handlers.py, every handler bound to the one sink of bootstrap
EVENT_HANDLERS ==
    [t \in EventTypes |->
        IF t \in {"Response", "Evaluation"} THEN <<Handler("send_response", "cli")>>
        ELSE <<Handler("send_failure", "cli")>>]

\* the same registry with a second sink subscribed to every event type
FanOutHandlers ==
    [t \in EventTypes |-> EVENT_HANDLERS[t] \o <<Handler(EVENT_HANDLERS[t][1].fn, "slack")>>]

COMMAND_HANDLERS == {"Question"}

\* the message send_response builds, or the exception it raises (the message of
\* an Evaluation goes on with its issues and scores, rendered the same way)
send_response(event) ==
    CASE event.type = "Evaluation" ->
            [raised |-> "none",
             message |-> "\nQuestion:\n" \o event.question \o "\nResponse:\n"
                         \o Val(event.response) \o "\nSummary:\n" \o Val(event.summary)]
      [] event.type = "Response" ->
            [raised |-> "none",
             message |-> "\nQuestion:\n" \o event.question \o "\nResponse:\n"
                         \o Val(event.response)]
      [] OTHER -> [raised |-> "UnboundLocalError", message |-> ""]

\* the message send_failure builds, or the exception it raises
send_failure(event) ==
    CASE event.type = "FailedRequest" ->
            [raised |-> "none",
             message |-> "\nQuestion:\n" \o event.question \o "\nException:\n"
                         \o Val(event.exception)]
      [] event.type = "RejectedRequest" ->
            [raised |-> "none",
             message |-> "\nQuestion:\n" \o event.question
                         \o "\n was rejected. Response:\n" \o Val(event.response)]
      [] OTHER -> [raised |-> "ValueError", message |-> ""]

(* ---------------- state ---------------- *)
Requests == {"r1", "r2"}
QIdOf(r) == IF r = "r1" THEN "s1" ELSE "s2"

VARIABLES
    kind,            \* which agent class the directly driven agent is
    agent,           \* the directly driven agent object
    last,            \* the latest direct update call: its command and its outcome
    event_handlers,  \* MessageBus.event_handlers
    queue,           \* MessageBus.queue
    adapter_agent,   \* adapter.agent: the request whose agent is registered
    agents,          \* the agent object each answer() call created
    pending,         \* requests that have not arrived yet
    pc,              \* where each bus.handle call stands
    frame,           \* the local variables of each bus.handle call
    calls,           \* the command types adapter.answer was invoked with, in order
    observed,        \* what the adapter's answers so far had in common (Traits)
    deviations,      \* how often the adapter answered with another type or q_id
    emitted,         \* the events answer() appended to agent.events, in order
    dispatched,      \* the event handler invocations, in order
    sent             \* the notifications.send calls, in order

agentVars == <<kind, agent, last>>
busVars == <<event_handlers, queue, adapter_agent, agents, pending, pc, frame,
             calls, observed, deviations, emitted, dispatched, sent>>
vars == <<kind, agent, last, event_handlers, queue, adapter_agent, agents, pending,
          pc, frame, calls, observed, deviations, emitted, dispatched, sent>>

Call(command, r) == [command |-> command, ret |-> r.ret, raised |-> r.raised]
NoCall == [command |-> NoCommand, ret |-> NoCommand, raised |-> "none"]

NoFrame ==
    [message |-> NoCommand, command |-> NoCommand, updated_command |-> NoCommand,
     event |-> NoEvent, handler |-> 0, raised |-> "none"]

BusInit ==
    /\ queue = <<>>
    /\ adapter_agent = NoType
    /\ agents = <<>>
    /\ pc = [r \in Requests |-> "idle"]
    /\ frame = [r \in Requests |-> NoFrame]
    /\ calls = [r \in Requests |-> <<>>]
    /\ observed = [r \in Requests |-> {}]
    /\ deviations = [r \in Requests |-> 0]
    /\ emitted = <<>>
    /\ dispatched = <<>>
    /\ sent = <<>>

(* ---------------- direct calls of update ---------------- *)
AgentInit ==
    /\ kind \in {"BaseAgent", "SQLBaseAgent"}
    /\ agent = IF kind = "BaseAgent"
               THEN BaseAgent(Command("Question", UserQuestion, "s1"))
               ELSE SQLBaseAgent(SQLCommand("SQLQuestion", UserQuestion, "s1"))
    /\ last = NoCall
    /\ event_handlers = EVENT_HANDLERS
    /\ pending = {}
    /\ BusInit

\* agent.update(command) on a BaseAgent, with any command
Update(command) ==
    /\ kind = "BaseAgent"
    /\ LET r == update(agent, command) IN
          /\ agent' = r.agent
          /\ last' = Call(command, r)
    /\ UNCHANGED kind
    /\ UNCHANGED busVars

\* agent.update(command) on a SQLBaseAgent, with any command
SQLUpdate(command) ==
    /\ kind = "SQLBaseAgent"
    /\ LET r == sql_update(agent, command) IN
          /\ agent' = r.agent
          /\ last' = Call(command, r)
    /\ UNCHANGED kind
    /\ UNCHANGED busVars

\* the question text a command of the given stage carries in a run on UserQuestion
StageQuestion(type) ==
    CASE type = "Check" -> populate_template("guardrails.pre_check", UserQuestion)
      [] type = "Enhance" -> populate_template("enhance", UserQuestion)
      [] type = "LLMResponse" -> populate_template("finalize", UserQuestion)
      [] type = "FinalCheck" ->
            populate_template("guardrails.post_check", populate_template("finalize", UserQuestion))
      [] type = "SQLCheck" -> populate_template("check", UserQuestion)
      [] OTHER -> UserQuestion

AgentNext ==
    \/ \E t \in CommandTypes \cup {OtherType}, q_id \in QIds :
          \E c \in Filled(t, StageQuestion(t), q_id) : Update(c)
    \/ \E t \in SQLCommandTypes \cup {OtherType}, q_id \in QIds :
          \E c \in SQLFilled(t, StageQuestion(t), q_id) : SQLUpdate(c)

AgentSpec == AgentInit /\ [][AgentNext]_vars

(* ---------------- direct calls of the adapter's rerank ---------------- *)
CandidateIds == {"a", "b", "c"}

\* the score the retrieval gave a candidate
RetrievalScore(id) == CASE id = "a" -> 2 [] id = "b" -> 1 [] OTHER -> 0

\* the candidate lists of a Rerank command: distinct candidates in any order
CandidateLists ==
    {l \in UNION {[1..n -> CandidateIds] : n \in 0..Cardinality(CandidateIds)} :
        \A i, j \in 1..Len(l) : i # j => l[i] # l[j]}

\* an adapter whose rag keeps at most n_ranking_candidates candidates and whose
\* ranking service gives each description a score, or fails on it
RerankInit ==
    /\ kind = "AgentAdapter"
    /\ \E n \in 0..MaxRanking :
       \E ranking \in [{KBResponse(id, 0).description : id \in CandidateIds}
                          -> {None} \cup {Some(v) : v \in 0..MaxScore}] :
          agent = [rag |-> [n_ranking_candidates |-> n, ranking |-> ranking]]
    /\ last = NoCall
    /\ event_handlers = EVENT_HANDLERS
    /\ pending = {}
    /\ BusInit

\* adapter.rerank(command)
Rerank(command) ==
    /\ kind = "AgentAdapter"
    /\ LET r == rerank(agent, command) IN
          /\ agent' = r.agent
          /\ last' = Call(command, r)
    /\ UNCHANGED kind
    /\ UNCHANGED busVars

RerankNext ==
    \E l \in {None} \cup {Some(ids) : ids \in CandidateLists} :
        Rerank([Command("Rerank", UserQuestion, "s1") EXCEPT !.candidates =
                   IF l = None THEN None
                   ELSE Some([i \in 1..Len(Val(l)) |->
                                 KBResponse(Val(l)[i], RetrievalScore(Val(l)[i]))])])

RerankSpec == RerankInit /\ [][RerankNext]_vars

(* ---------------- MessageBus (service_layer/messagebus.py) ---------------- *)
Init ==
    /\ kind = "BaseAgent"
    /\ agent = BaseAgent(Command("Question", UserQuestion, "s1"))
    /\ last = NoCall
    /\ event_handlers \in {EVENT_HANDLERS, FanOutHandlers}
    /\ pending = {"r1"}
    /\ BusInit

Active(r) == pc[r] \notin {"idle", "done", "raised"}

\* handle_command logging the exception without re-raising it
Swallow(r, exc) ==
    /\ pc' = [pc EXCEPT ![r] = "loop"]
    /\ frame' = frame

\* the exception leaves bus.handle
Propagate(r, exc) ==
    /\ pc' = [pc EXCEPT ![r] = "raised"]
    /\ frame' = [frame EXCEPT ![r].raised = exc]

\* collect_new_events popping from the end of agent.events
collect_newest_first ==
    LET events == agents[adapter_agent].events
    IN [i \in 1..Len(events) |-> events[Len(events) + 1 - i]]

\* collect_new_events with "if" in place of "while": only the first event
collect_first_event_only ==
    LET events == agents[adapter_agent].events
    IN IF events = <<>> THEN <<>> ELSE <<Head(events)>>

\* adapter.collect_new_events(): pops every event of the registered agent
collect_new_events == agents[adapter_agent].events

\* bus.handle(message): self.queue = [message]
StartHandle(r, message) ==
    /\ r \in pending
    /\ pc[r] = "idle"
    /\ pending' = pending \ {r}
    /\ queue' = <<message>>
    /\ pc' = [pc EXCEPT ![r] = "loop"]
    /\ frame' = [frame EXCEPT ![r].message = message]
    /\ UNCHANGED <<agentVars, event_handlers, adapter_agent, agents, calls,
                   observed, deviations, emitted, dispatched, sent>>

\* bus.handle(message) called while no other handle call is running
Handle(r, message) ==
    /\ \A o \in Requests \ {r} : ~Active(o)
    /\ StartHandle(r, message)

\* one turn of "while self.queue": pop the front message and pick its branch
HandleLoop(r) ==
    /\ pc[r] = "loop"
    /\ IF queue = <<>>
       THEN /\ pc' = [pc EXCEPT ![r] = "done"]
            /\ UNCHANGED <<queue, frame>>
       ELSE LET message == Head(queue) IN
            /\ queue' = Tail(queue)
            /\ IF message.type \in EventClasses
               THEN IF message.type \notin DOMAIN event_handlers
                    THEN Propagate(r, "KeyError")
                    ELSE /\ frame' = [frame EXCEPT ![r].message = message,
                                                   ![r].event = message,
                                                   ![r].handler = 1]
                         /\ pc' = [pc EXCEPT ![r] =
                                      IF event_handlers[message.type] = <<>>
                                      THEN "loop" ELSE "event"]
               ELSE IF message.type \in CommandTypes
               THEN /\ frame' = [frame EXCEPT ![r].message = message,
                                              ![r].command = message]
                    /\ pc' = [pc EXCEPT ![r] = "command"]
               ELSE Propagate(r, "Exception")
    /\ UNCHANGED <<agentVars, event_handlers, adapter_agent, agents, pending, calls,
                   observed, deviations, emitted, dispatched, sent>>

\* answer() going on with the agent the adapter already holds, if there is one
HandleCommandReusingAgent(r) ==
    /\ pc[r] = "command"
    /\ LET command == frame[r].command IN
       IF command.type \notin COMMAND_HANDLERS
       THEN Propagate(r, "KeyError") /\ UNCHANGED <<agents, adapter_agent>>
       ELSE IF Falsy(command.question)
       THEN Propagate(r, "InvalidQuestion") /\ UNCHANGED <<agents, adapter_agent>>
       ELSE /\ agents' = (r :> IF adapter_agent # NoType THEN agents[adapter_agent]
                                ELSE BaseAgent(command)) @@ agents
            /\ adapter_agent' = r
            /\ pc' = [pc EXCEPT ![r] = IF agents'[r].is_answered THEN "finish" ELSE "adapter"]
            /\ UNCHANGED frame
    /\ UNCHANGED <<agentVars, event_handlers, queue, pending, calls, observed, deviations,
                   emitted, dispatched, sent>>

\* handle_command looks the handler up and answer() starts: validation,
\* agent construction, adapter.add(agent)
HandleCommand(r) ==
    /\ pc[r] = "command"
    /\ LET command == frame[r].command IN
       IF command.type \notin COMMAND_HANDLERS
       THEN Propagate(r, "KeyError") /\ UNCHANGED <<agents, adapter_agent>>
       ELSE IF Falsy(command.question)
       THEN Propagate(r, "InvalidQuestion") /\ UNCHANGED <<agents, adapter_agent>>
       ELSE /\ agents' = (r :> BaseAgent(command)) @@ agents
            /\ adapter_agent' = r
            /\ pc' = [pc EXCEPT ![r] = "adapter"]
            /\ UNCHANGED frame
    /\ UNCHANGED <<agentVars, event_handlers, queue, pending, calls, observed, deviations,
                   emitted, dispatched, sent>>

\* what adapter.answer(command) may return: the stage of the command filled in,
\* or, while the budget lasts, a command of another pipeline type or one of
\* another session
AdapterAnswers(command, deviated) ==
    LET asked == Filled(command.type, command.question, command.q_id)
    IN IF deviated < MaxDeviations
       THEN asked
            \cup UNION {Filled(t, command.question, command.q_id) : t \in CommandTypes}
            \cup UNION {Filled(command.type, command.question, q_id) : q_id \in QIds}
       ELSE asked

\* what one answer of the adapter shows about the adapter
Traits(command, returned) ==
    {t \in {"type_changed", "q_id_changed", "check_unapproved", "check_no_response",
            "rerank_no_candidates", "tools_unfilled", "llm_unfilled",
            "final_unfilled"} :
        CASE t = "type_changed" -> returned.type # command.type
          [] t = "q_id_changed" -> returned.q_id # command.q_id
          [] t = "check_unapproved" ->
                returned.type = "Check" /\ returned.approved # Some(TRUE)
          [] t = "check_no_response" ->
                returned.type = "Check" /\ returned.response = None
          [] t = "rerank_no_candidates" ->
                returned.type = "Rerank" /\ returned.candidates = None
          [] t = "tools_unfilled" ->
                returned.type = "UseTools"
                /\ (returned.response = None \/ returned.memory = None)
          [] t = "llm_unfilled" ->
                returned.type = "LLMResponse" /\ returned.response = None
          [] t = "final_unfilled" ->
                returned.type = "FinalCheck"
                /\ (returned.approved = None \/ returned.summary = None)}

\* updated_command = adapter.answer(command)
AdapterAnswer(r) ==
    /\ pc[r] = "adapter"
    /\ Len(calls[r]) < MaxCalls
    /\ \E updated_command \in AdapterAnswers(frame[r].command, deviations[r]) :
          /\ frame' = [frame EXCEPT ![r].updated_command = updated_command]
          /\ observed' = [observed EXCEPT ![r] =
                             @ \cup Traits(frame[r].command, updated_command)]
          /\ deviations' = [deviations EXCEPT ![r] =
                               IF /\ updated_command.type = frame[r].command.type
                                  /\ updated_command.q_id = frame[r].command.q_id
                               THEN @ ELSE @ + 1]
    /\ calls' = [calls EXCEPT ![r] = Append(@, frame[r].command.type)]
    /\ pc' = [pc EXCEPT ![r] = "update"]
    /\ UNCHANGED <<agentVars, event_handlers, queue, adapter_agent, agents, pending,
                   emitted, dispatched, sent>>

\* a loop that leaves before the final check, the response just stored
LoopStoppingBeforeFinalCheck(self, command) ==
    ~self.is_answered /\ command.type \notin {NoType, "FinalCheck"}

\* a loop test that only looks at the command
LoopIgnoringAnswered(self, command) == command.type # NoType

\* "while not agent.is_answered and command is not None"
LoopContinues(self, command) == ~self.is_answered /\ command.type # NoType

\* command = agent.update(updated_command), then the loop test of answer()
AgentUpdate(r) ==
    /\ pc[r] = "update"
    /\ LET res == update(agents[r], frame[r].updated_command) IN
          /\ agents' = [agents EXCEPT ![r] = res.agent]
          /\ last' = Call(frame[r].updated_command, res)
          /\ IF res.raised # "none"
             THEN Propagate(r, res.raised)
             ELSE /\ frame' = [frame EXCEPT ![r].command = res.ret]
                  /\ pc' = [pc EXCEPT ![r] =
                               IF LoopContinues(res.agent, res.ret)
                               THEN "adapter" ELSE "finish"]
    /\ UNCHANGED <<kind, agent, event_handlers, queue, adapter_agent, pending, calls,
                   observed, deviations, emitted, dispatched, sent>>

\* the evaluation appended before the response
OutcomeEventsEvaluationFirst(self) ==
    IF self.evaluation.type # NoType
    THEN <<self.evaluation, self.response>> ELSE <<self.response>>

\* the evaluation appended in place of the response
OutcomeEventsEvaluationOnly(self) ==
    IF self.evaluation.type # NoType THEN <<self.evaluation>> ELSE <<self.response>>

\* the events answer() appends after the loop: agent.response and, if set,
\* agent.evaluation
OutcomeEvents(self) ==
    IF self.evaluation.type # NoType
    THEN <<self.response, self.evaluation>> ELSE <<self.response>>

\* the end of answer(): agent.events.append(...)
AnswerFinish(r) ==
    /\ pc[r] = "finish"
    /\ LET new == OutcomeEvents(agents[r])
       IN /\ agents' = [agents EXCEPT ![r].events = @ \o new]
          /\ emitted' = emitted \o new
    /\ pc' = [pc EXCEPT ![r] = "collect"]
    /\ UNCHANGED <<agentVars, event_handlers, queue, adapter_agent, pending, frame,
                   calls, observed, deviations, dispatched, sent>>

\* handle_command: self.queue.extend(self.agent.collect_new_events())
CollectNewEvents(r) ==
    /\ pc[r] = "collect"
    /\ queue' = queue \o collect_new_events
    /\ agents' = [agents EXCEPT ![adapter_agent].events = <<>>]
    /\ pc' = [pc EXCEPT ![r] = "loop"]
    /\ UNCHANGED <<agentVars, event_handlers, adapter_agent, pending, frame, calls,
                   observed, deviations, emitted, dispatched, sent>>

\* a handler failure that ends the loop over the handlers
NextHandlerAborting(index, count, succeeded) ==
    IF succeeded /\ index < count THEN index + 1 ELSE 0

\* the position in "for handler in ..." after one handler ran; 0 ends the loop.
\* A handler that raised is logged and the loop continues.
NextHandler(index, count, succeeded) == IF index < count THEN index + 1 ELSE 0

\* a handler failure that ends the while loop of handle
AfterHandlerStoppingOnFailure(next, succeeded) ==
    IF ~succeeded THEN "done" ELSE IF next = 0 THEN "loop" ELSE "event"

\* where handle goes on after one handler: the next handler of the event, or
\* the next message of the queue once the handlers are exhausted
AfterHandler(next, succeeded) == IF next = 0 THEN "loop" ELSE "event"

\* handle_event: one turn of "for handler in self.event_handlers[type(event)]";
\* the sink either accepts the notification or raises
HandleEvent(r, accepted) ==
    /\ pc[r] = "event"
    /\ LET event == frame[r].event
           handlers == event_handlers[event.type]
           handler == handlers[frame[r].handler]
           built == IF handler.fn = "send_response" THEN send_response(event)
                    ELSE send_failure(event)
           succeeded == built.raised = "none" /\ accepted
       IN /\ dispatched' = Append(dispatched,
                [request |-> r, event |-> event, handler |-> handler,
                 index |-> frame[r].handler, raised |-> ~succeeded])
          /\ sent' = IF built.raised = "none"
                     THEN Append(sent, [destination |-> event.q_id,
                                        message |-> built.message,
                                        sink |-> handler.sink, event |-> event.type])
                     ELSE sent
          /\ IF succeeded /\ adapter_agent # NoType
             THEN /\ queue' = queue \o collect_new_events
                  /\ agents' = [agents EXCEPT ![adapter_agent].events = <<>>]
             ELSE UNCHANGED <<queue, agents>>
          /\ LET next == NextHandler(frame[r].handler, Len(handlers), succeeded) IN
                /\ frame' = [frame EXCEPT ![r].handler = next]
                /\ pc' = [pc EXCEPT ![r] = AfterHandler(next, succeeded)]
    /\ UNCHANGED <<agentVars, event_handlers, adapter_agent, pending, calls,
                   observed, deviations, emitted>>

\* the questions a caller hands to bus.handle
EntryQuestions == {"", UserQuestion}

Step(r) ==
    \/ \E question \in EntryQuestions :
          Handle(r, Command("Question", question, QIdOf(r)))
    \/ Handle(r, Event("StatusUpdate", "", QIdOf(r)))
    \/ HandleLoop(r)
    \/ HandleCommand(r)
    \/ AdapterAnswer(r)
    \/ AgentUpdate(r)
    \/ AnswerFinish(r)
    \/ CollectNewEvents(r)
    \/ \E accepted \in BOOLEAN : HandleEvent(r, accepted)

Next == \E r \in Requests : Step(r)

Spec == Init /\ [][Next]_vars

(* ---------------- several requests on one bus ---------------- *)
\* the answers of an adapter that keeps type and q_id and fills in every result;
\* it may reject either check, lose the candidates of the Rerank, or answer a
\* Retrieve with the Check once more
ScriptedAnswers(command) ==
    LET text == Some("text")
        same == Command(command.type, command.question, command.q_id)
    IN CASE command.type = "Check" ->
               {[same EXCEPT !.approved = Some(a), !.response = text] : a \in BOOLEAN}
         [] command.type = "Retrieve" ->
               {[same EXCEPT !.candidates = Some(<<>>)],
                [Command("Check", command.question, command.q_id)
                    EXCEPT !.approved = Some(TRUE), !.response = text]}
         [] command.type = "Rerank" -> {[same EXCEPT !.candidates = l] : l \in Lists}
         [] command.type \in {"Enhance", "LLMResponse"} -> {[same EXCEPT !.response = text]}
         [] command.type = "UseTools" ->
               {[same EXCEPT !.response = text, !.memory = Some(<<>>)]}
         [] command.type = "FinalCheck" ->
               {[same EXCEPT !.approved = Some(a), !.summary = text] : a \in BOOLEAN}
         [] OTHER -> {same}

\* updated_command = adapter.answer(command), with that adapter
ScriptedAnswer(r) ==
    /\ pc[r] = "adapter"
    /\ \E updated_command \in ScriptedAnswers(frame[r].command) :
          /\ frame' = [frame EXCEPT ![r].updated_command = updated_command]
          /\ observed' = [observed EXCEPT ![r] =
                             @ \cup Traits(frame[r].command, updated_command)]
    /\ calls' = [calls EXCEPT ![r] = Append(@, frame[r].command.type)]
    /\ pc' = [pc EXCEPT ![r] = "update"]
    /\ UNCHANGED <<agentVars, event_handlers, queue, adapter_agent, agents, pending,
                   deviations, emitted, dispatched, sent>>

\* one bus built by bootstrap, every request still to come
SharedBusInit ==
    /\ BusInit
    /\ kind = "BaseAgent"
    /\ agent = BaseAgent(Command("Question", UserQuestion, "s1"))
    /\ last = NoCall
    /\ event_handlers = EVENT_HANDLERS
    /\ pending = Requests

\* the steps of a handle call that are the same however the calls are scheduled
SharedStep(r) ==
    \/ HandleLoop(r)
    \/ HandleCommand(r)
    \/ ScriptedAnswer(r)
    \/ AgentUpdate(r)
    \/ AnswerFinish(r)
    \/ CollectNewEvents(r)
    \/ \E accepted \in BOOLEAN : HandleEvent(r, accepted)

\* the Questions handled one after the other
SequentialNext ==
    \E r \in Requests :
        \/ \E question \in EntryQuestions :
              Handle(r, Command("Question", question, QIdOf(r)))
        \/ SharedStep(r)

SequentialSpec == SharedBusInit /\ [][SequentialNext]_vars

\* the Questions handled by threads of the web entrypoint: a handle call may
\* start, and any running call may take its next step, at any time
ConcurrentNext ==
    \E r \in Requests :
        \/ StartHandle(r, Command("Question", UserQuestion, QIdOf(r)))
        \/ SharedStep(r)

ConcurrentSpec == SharedBusInit /\ [][ConcurrentNext]_vars

(* ======================= claims ======================= *)

\* C2: for BaseAgent and SQLBaseAgent alike, when update is called twice in a
\* row with commands of one type, then after the second call is_answered is
\* true and response is the FailedRequest "Internal error: Duplicate command",
\* whatever the first call did (returned, concluded or raised).
DuplicateCommandFails ==
    [][(last.command.type # NoType /\ last'.command.type = last.command.type)
        => /\ agent'.is_answered
           /\ agent'.response =
                FailedRequest(agent'.question, DuplicateMessage, agent'.q_id)]_vars

\* C2 witness: a SQLBaseAgent whose first call raised has been stopped by the
\* repeated command.
DuplicateAfterRaise ==
    /\ kind = "SQLBaseAgent"
    /\ last.command.type = OtherType
    /\ agent.previous_command = OtherType
    /\ agent.is_answered
    /\ agent.response.type = "FailedRequest"

\* C3 as stated: update(Check) with approved = true on any non-answered agent
\* yields a Retrieve with the original question and the command's q_id and
\* leaves is_answered false.
ApprovedCheckAlwaysRetrieves ==
    [][(/\ kind = "BaseAgent"
        /\ ~agent.is_answered
        /\ last'.command.type = "Check"
        /\ last'.command.approved = Some(TRUE))
        => /\ last'.raised = "none"
           /\ last'.ret.type = "Retrieve"
           /\ last'.ret.question = agent.question
           /\ last'.ret.q_id = last'.command.q_id
           /\ ~agent'.is_answered]_vars

\* C3 amended: update(Check) with approved = true on a non-answered agent whose
\* previous command type is not Check yields a Retrieve that carries the
\* original user question (not the pre-check prompt) and the command's q_id,
\* and leaves is_answered false.
ApprovedCheckRetrieves ==
    [][(/\ kind = "BaseAgent"
        /\ ~agent.is_answered
        /\ agent.previous_command # "Check"
        /\ last'.command.type = "Check"
        /\ last'.command.approved = Some(TRUE))
        => /\ last'.raised = "none"
           /\ last'.ret.type = "Retrieve"
           /\ last'.ret.question = agent.question
           /\ last'.ret.question # last'.command.question
           /\ last'.ret.q_id = last'.command.q_id
           /\ ~agent'.is_answered]_vars

\* C3 witness: an approved Check has just produced the Retrieve.
ApprovedCheckProcessed ==
    /\ kind = "BaseAgent"
    /\ last.command.type = "Check"
    /\ last.command.approved = Some(TRUE)
    /\ last.ret.type = "Retrieve"
    /\ last.ret.question = UserQuestion
    /\ ~agent.is_answered

IsPrefix(s, t) == Len(s) <= Len(t) /\ \A i \in 1..Len(s) : s[i] = t[i]

\* the handler invocations made for request r, in order
DispatchedFor(r) == SelectSeq(dispatched, LAMBDA d : d.request = r)

\* the events the bus dispatched for request r: one per first handler invocation
EventsDispatchedFor(r) == SelectSeq(DispatchedFor(r), LAMBDA d : d.index = 1)

\* answer() got past its validation for request r
Started(r) == r \in DOMAIN agents

HappyPathEvents ==
    \A r \in DOMAIN agents :
        (/\ pc[r] = "collect"
         /\ agents[r].previous_command = "FinalCheck"
         /\ agents[r].response.type # "FailedRequest")
        => /\ Len(agents[r].events) = 2
           /\ agents[r].events[1].type = "Response"
           /\ agents[r].events[1] = agents[r].response
           /\ agents[r].events[2].type = "Evaluation"
           /\ agents[r].events[2] = agents[r].evaluation

\* C6 witness: the handler finished an approved run through FinalCheck.
HappyPathFinished ==
    /\ pc["r1"] = "collect"
    /\ calls["r1"] = PipelineTypes
    /\ "check_unapproved" \notin observed["r1"]
    /\ Len(agents["r1"].events) = 2

\* C7: the bus dispatches events in the order the agent emitted them: the n-th
\* event dispatched is the n-th event emitted, all handler calls for an event
\* come before any handler call for a later one, and the Response notification
\* is sent before the Evaluation notification.
FifoDispatch ==
    LET firsts == SelectSeq(dispatched, LAMBDA d : d.index = 1)
        Position(e) == CHOOSE k \in 1..Len(emitted) : emitted[k] = e
    IN /\ Len(firsts) <= Len(emitted)
       /\ \A i \in 1..Len(firsts) : firsts[i].event = emitted[i]
       /\ \A i, j \in 1..Len(dispatched) :
             i < j => Position(dispatched[i].event) <= Position(dispatched[j].event)
       /\ \A i, j \in 1..Len(sent) :
             (sent[i].event = "Response" /\ sent[j].event = "Evaluation") => i < j

\* C7 witness: both events of a happy path went to both of their handlers.
BothEventsFannedOut ==
    /\ pc["r1"] = "done"
    /\ Len(emitted) = 2
    /\ event_handlers = FanOutHandlers
    /\ Len(dispatched) = 4
    /\ Len(sent) = 4

\* C8: when the command handler raises (InvalidQuestion, or an exception of
\* agent.update inside the answer loop), bus.handle ends with that same
\* exception, and no event handler was invoked and no notification sent.
CommandFailurePropagates ==
    \A r \in Requests :
        /\ (Started(r) /\ last.raised # "none") =>
              pc[r] = "raised" /\ frame[r].raised = last.raised
        /\ (pc[r] = "raised" /\ frame[r].message.type \in CommandTypes) =>
              /\ frame[r].raised # "none"
              /\ Started(r) => frame[r].raised = last.raised
              /\ ~Started(r) => frame[r].raised = "InvalidQuestion"
              /\ DispatchedFor(r) = <<>>
              /\ sent = <<>>
              /\ emitted = <<>>

\* C8 witness: the LLMResponse precondition failed inside the answer loop.
PreconditionFailurePropagated ==
    /\ pc["r1"] = "raised"
    /\ frame["r1"].raised = "ValueError"
    /\ last.command.type = "LLMResponse"
    /\ agents["r1"].tool_answer.type = NoType

\* C9: when a registered handler of an event raises, the handlers registered
\* after it for that event are still executed, and bus.handle does not raise.
FanOutIsolation ==
    \A i \in 1..Len(dispatched) :
        LET d == dispatched[i]
            count == Len(event_handlers[d.event.type])
        IN d.raised =>
              /\ pc[d.request] # "raised"
              /\ d.index < count =>
                    IF i = Len(dispatched)
                    THEN /\ pc[d.request] = "event"
                         /\ frame[d.request].event = d.event
                         /\ frame[d.request].handler = d.index + 1
                    ELSE /\ dispatched[i + 1].event = d.event
                         /\ dispatched[i + 1].index = d.index + 1

\* C9 witness: the first handler of an event raised, the second one ran and
\* handle returned.
SecondHandlerRanAfterFailure ==
    /\ pc["r1"] = "done"
    /\ Len(dispatched) >= 2
    /\ dispatched[1].raised
    /\ dispatched[2].index = 2
    /\ ~dispatched[2].raised
    /\ dispatched[2].event = dispatched[1].event

\* C10: handling a Question with an empty question text raises InvalidQuestion
\* out of bus.handle; no agent is created or registered with the adapter,
\* adapter.answer is never invoked and nothing is dispatched or sent.
InvalidQuestionRejected ==
    \A r \in Requests :
        (frame[r].message.type = "Question" /\ frame[r].message.question = "")
        => /\ ~Started(r)
           /\ adapter_agent # r
           /\ calls[r] = <<>>
           /\ DispatchedFor(r) = <<>>
           /\ sent = <<>>
           /\ pc[r] \in {"loop", "command", "raised"}
           /\ pc[r] = "raised" => frame[r].raised = "InvalidQuestion"

\* C10 witness: the empty question was refused.
EmptyQuestionRefused ==
    /\ pc["r1"] = "raised"
    /\ frame["r1"].message.question = ""
    /\ frame["r1"].raised = "InvalidQuestion"

\* C11 as stated: update(LLMResponse) on any agent that has processed no
\* UseTools command (tool_answer is None, previous command type is not
\* LLMResponse) raises ValueError and returns no command.
LLMResponseWithoutToolsRaises ==
    [][(/\ kind = "BaseAgent"
        /\ agent.tool_answer.type = NoType
        /\ agent.previous_command # "LLMResponse"
        /\ last'.command.type = "LLMResponse")
        => /\ last'.raised = "ValueError"
           /\ last'.ret = NoCommand]_vars

\* C11 amended: update(LLMResponse) on a non-answered agent that has processed
\* no UseTools command (tool_answer is None, previous command type is not
\* LLMResponse) always raises ValueError and returns no command.
LLMResponseNeedsTools ==
    [][(/\ kind = "BaseAgent"
        /\ ~agent.is_answered
        /\ agent.tool_answer.type = NoType
        /\ agent.previous_command # "LLMResponse"
        /\ last'.command.type = "LLMResponse")
        => /\ last'.raised = "ValueError"
           /\ last'.ret = NoCommand
           /\ agent'.response = agent.response]_vars

\* C11 witness: an LLMResponse reached an agent without tool answer and raised.
LLMResponseRefused ==
    /\ kind = "BaseAgent"
    /\ last.command.type = "LLMResponse"
    /\ last.raised = "ValueError"
    /\ agent.tool_answer.type = NoType
    /\ ~agent.is_answered

\* C15: once is_answered is true it stays true, and every later update
\* returns None without raising and without running an arm of the transition
\* table: enhancement, tool_answer, agent_memory and evaluation stay as they are.
AnsweredIsTerminal ==
    [][agent.is_answered
        => /\ agent'.is_answered
           /\ last'.raised = "none"
           /\ last'.ret = NoCommand
           /\ kind = "BaseAgent" =>
                 /\ agent'.enhancement = agent.enhancement
                 /\ agent'.tool_answer = agent.tool_answer
                 /\ agent'.agent_memory = agent.agent_memory
                 /\ agent'.evaluation = agent.evaluation]_vars

\* C15 witness: a UseTools command reached an answered agent and left no trace.
AnsweredAgentIgnoredTools ==
    /\ kind = "BaseAgent"
    /\ agent.is_answered
    /\ last.command.type = "UseTools"
    /\ last.command.response # None
    /\ last.ret = NoCommand
    /\ last.raised = "none"
    /\ agent.tool_answer.type = NoType

\* the events dispatched for request r that tell how the request ended
OutcomesDispatchedFor(r) ==
    SelectSeq(EventsDispatchedFor(r),
              LAMBDA d : d.event.type \in {"Response", "RejectedRequest", "FailedRequest"})

\* C12: a duplicate-command fault inside the answer loop is reported as an
\* event, not an exception: bus.handle returns normally and exactly one event,
\* the FailedRequest, is dispatched, to the failure handler(s).
DuplicateFaultIsEvent ==
    \A r \in DOMAIN agents :
        agents[r].response.type = "FailedRequest"
        => /\ pc[r] # "raised"
           /\ agents[r].is_answered
           /\ last.command.type = agents[r].previous_command
           /\ pc[r] = "done" =>
                 /\ Len(EventsDispatchedFor(r)) = 1
                 /\ EventsDispatchedFor(r)[1].event = agents[r].response
                 /\ Len(DispatchedFor(r)) = Len(event_handlers["FailedRequest"])
                 /\ \A i \in 1..Len(DispatchedFor(r)) :
                       DispatchedFor(r)[i].handler.fn = "send_failure"

\* C12 witness: the adapter repeated a command type and the request ended with
\* the FailedRequest handed to the failure handler.
DuplicateFaultNotified ==
    /\ pc["r1"] = "done"
    /\ agents["r1"].response.type = "FailedRequest"
    /\ Len(dispatched) >= 1
    /\ dispatched[1].event.type = "FailedRequest"
    /\ dispatched[1].handler.fn = "send_failure"
    /\ ~dispatched[1].raised

\* C13: every bus.handle(Question) call that returns normally has dispatched
\* exactly one outcome event for the request, a Response, a RejectedRequest or
\* a FailedRequest, as the first event, followed at most by the Evaluation.
OneOutcomePerRequest ==
    \A r \in Requests :
        pc[r] = "done"
        => /\ Started(r)
           /\ Len(OutcomesDispatchedFor(r)) = 1
           /\ EventsDispatchedFor(r)[1] = OutcomesDispatchedFor(r)[1]
           /\ EventsDispatchedFor(r)[1].event = agents[r].response
           /\ Len(EventsDispatchedFor(r)) <= 2
           /\ Len(EventsDispatchedFor(r)) = 2 =>
                 EventsDispatchedFor(r)[2].event.type = "Evaluation"

\* C13 witness: a handle call returned after the Response and the Evaluation.
AnsweredRequestNotified ==
    /\ pc["r1"] = "done"
    /\ Len(EventsDispatchedFor("r1")) = 2
    /\ EventsDispatchedFor("r1")[1].event.type = "Response"
    /\ Len(OutcomesDispatchedFor("r1")) = 1

\* the positions in dispatched at which handler number index was called for event
DispatchesOf(event, index) ==
    {i \in 1..Len(dispatched) : dispatched[i].event = event /\ dispatched[i].index = index}

\* C14: when handle returns normally the work queue and the agent's event queue
\* are empty, and every event appended to the agent's queue was dispatched
\* exactly once to each handler registered for its type, and nothing else was.
HandleDrains ==
    \A r \in Requests :
        pc[r] = "done"
        => /\ queue = <<>>
           /\ agents[r].events = <<>>
           /\ \A k \in 1..Len(emitted) :
                 \A index \in 1..Len(event_handlers[emitted[k].type]) :
                    Cardinality(DispatchesOf(emitted[k], index)) = 1
           /\ \A i \in 1..Len(dispatched) :
                 /\ \E k \in 1..Len(emitted) : emitted[k] = dispatched[i].event
                 /\ dispatched[i].index <= Len(event_handlers[dispatched[i].event.type])

\* C14 witness: handle returned with both events of a run delivered and
\* nothing left in either queue.
QueuesDrained ==
    /\ pc["r1"] = "done"
    /\ queue = <<>>
    /\ agents["r1"].events = <<>>
    /\ Len(emitted) = 2
    /\ Len(dispatched) = 2 * Len(event_handlers["Response"])

\* C16: no stage type is executed by the adapter more than once for one
\* request, whatever pipeline commands the adapter returns.
NoStageRepeated ==
    \A r \in Requests :
        \A i, j \in 1..Len(calls[r]) : i # j => calls[r][i] # calls[r][j]

\* C18: when FinalCheck came back with approved = false, a RejectedAnswer
\* event is dispatched for the request.
PostCheckRejectionReported ==
    \A r \in DOMAIN agents :
        (/\ pc[r] = "done"
         /\ agents[r].evaluation.type = "Evaluation"
         /\ agents[r].evaluation.approved = Some(FALSE))
        => \E i \in 1..Len(dispatched) : dispatched[i].event.type = "RejectedAnswer"

\* C19: an Evaluation is emitted only directly after a Response of the same
\* request carrying the same answer: never first, never after a
\* RejectedRequest or a FailedRequest.
EvaluationFollowsResponse ==
    \A k \in 1..Len(emitted) :
        emitted[k].type = "Evaluation"
        => /\ k > 1
           /\ emitted[k - 1].type = "Response"
           /\ emitted[k - 1].q_id = emitted[k].q_id
           /\ emitted[k - 1].response = emitted[k].response

\* C19 witness: a run emitted its Evaluation right after its Response.
EvaluationEmitted ==
    /\ Len(emitted) = 2
    /\ emitted[1].type = "Response"
    /\ emitted[2].type = "Evaluation"
    /\ emitted[2].approved = Some(FALSE)

\* C17: when two Questions are handled concurrently through one bus and one
\* adapter, and both handle calls have returned, every outcome event a request
\* emitted has been dispatched exactly once to each handler of its type.
ConcurrentRequestsIsolated ==
    (\A r \in Requests : pc[r] = "done")
    => \A k \in 1..Len(emitted) :
          \A index \in 1..Len(event_handlers[emitted[k].type]) :
             Cardinality(DispatchesOf(emitted[k], index)) = 1

\* the stages the adapter is asked for, given what its answers were like
ExpectedCalls(traits) ==
    IF "check_unapproved" \in traits THEN SubSeq(PipelineTypes, 1, 2)
    ELSE IF "type_changed" \in traits THEN SubSeq(PipelineTypes, 1, 3)
    ELSE IF "rerank_no_candidates" \in traits THEN SubSeq(PipelineTypes, 1, 4)
    ELSE PipelineTypes

\* the event types a request ends with, given what the adapter's answers were like
ExpectedEvents(traits) ==
    IF "check_unapproved" \in traits THEN <<"RejectedRequest">>
    ELSE IF "type_changed" \in traits THEN <<"FailedRequest">>
    ELSE <<"Response", "Evaluation">>

\* C20: each handled Question gets its own fresh agent, and when two Questions
\* are handled one after the other on one bus, the stage sequence and the
\* events of a request are determined by the adapter's answers to that request
\* alone, whatever the other request did, and carry only its own q_id.
FreshAgentPerRequest ==
    \A r \in Requests :
        /\ (pc[r] = "adapter" /\ calls[r] = <<>>) =>
              /\ agents[r] = BaseAgent(Command("Question", UserQuestion, QIdOf(r)))
              /\ ~agents[r].is_answered
              /\ agents[r].previous_command = NoType
              /\ agents[r].events = <<>>
        /\ Started(r) =>
              /\ IsPrefix(calls[r], ExpectedCalls(observed[r]))
              /\ pc[r] = "raised" =>
                    /\ "rerank_no_candidates" \in observed[r]
                    /\ calls[r] = ExpectedCalls(observed[r])
                    /\ DispatchedFor(r) = <<>>
              /\ pc[r] = "done" =>
                    /\ calls[r] = ExpectedCalls(observed[r])
                    /\ Len(EventsDispatchedFor(r)) = Len(ExpectedEvents(observed[r]))
                    /\ \A i \in 1..Len(EventsDispatchedFor(r)) :
                          EventsDispatchedFor(r)[i].event.type =
                             ExpectedEvents(observed[r])[i]
        /\ \A i \in 1..Len(DispatchedFor(r)) :
              /\ DispatchedFor(r)[i].event.q_id = QIdOf(r)
              /\ DispatchedFor(r)[i].event.question = UserQuestion

\* C20 witness: the first request failed with an exception and the second one,
\* handled afterwards, was answered with its two events.
SecondRequestAnsweredAfterFailure ==
    /\ pc["r1"] = "raised"
    /\ Started("r1")
    /\ adapter_agent = "r2"
    /\ pc["r2"] = "done"
    /\ calls["r2"] = PipelineTypes
    /\ Len(EventsDispatchedFor("r2")) = 2

(* ----------- the SQL agent (domain/sql_model.py) ----------- *)
\* position of a stage type in the SQL chain
SQLStage(type) == CHOOSE i \in 1..Len(SQLPipelineTypes) : SQLPipelineTypes[i] = type

\* C21: on a non-answered SQL agent, a stage command whose type is not the
\* previous one (a SQLCheck being approved) makes update return the command of
\* the next stage of the chain SQLQuestion, SQLCheck, SQLGrounding, SQLFilter,
\* SQLJoinInference, SQLAggregation, SQLConstruction, SQLValidation (with the
\* command's q_id, the SQLConstruction command with the agent's), and
\* is_answered stays false; it becomes true only when SQLValidation is
\* processed.
SQLChainWalk ==
    [][(/\ kind = "SQLBaseAgent"
        /\ ~agent.is_answered
        /\ last'.command.type \in SQLCommandTypes
        /\ last'.command.type # agent.previous_command
        /\ last'.command.type = "SQLCheck" => last'.command.approved = Some(TRUE))
        => /\ agent'.previous_command = last'.command.type
           /\ IF last'.command.type = "SQLValidation"
              THEN agent'.is_answered
              ELSE /\ ~agent'.is_answered
                   /\ last'.raised = "none"
                   /\ last'.ret.type = SQLPipelineTypes[SQLStage(last'.command.type) + 1]
                   /\ last'.ret.q_id = IF last'.command.type = "SQLAggregation"
                                       THEN agent.q_id
                                       ELSE last'.command.q_id]_vars

\* C21 witness: the chain was walked up to the SQLValidation command, every
\* earlier stage having left its result in the accumulator.
SQLChainWalked ==
    /\ kind = "SQLBaseAgent"
    /\ last.command.type = "SQLConstruction"
    /\ last.ret.type = "SQLValidation"
    /\ ~agent.is_answered
    /\ agent.constructions.schema_info # None
    /\ agent.constructions.column_mappings # None
    /\ agent.constructions.filter_results # None
    /\ agent.constructions.joins # None
    /\ agent.constructions.aggregations # None

\* C22: on an agent that went through the preceding SQL stages,
\* update(SQLValidation) sets is_answered, records the query event and returns
\* None without raising.
SQLValidationConcludes ==
    [][(/\ kind = "SQLBaseAgent"
        /\ ~agent.is_answered
        /\ agent.previous_command = "SQLConstruction"
        /\ last'.command.type = "SQLValidation")
        => /\ agent'.is_answered
           /\ last'.raised = "none"
           /\ last'.ret = NoCommand
           /\ agent'.query.type = "Query"]_vars

Partials(c) ==
    [column_mappings |-> c.column_mappings, table_mappings |-> c.table_mappings,
     filter_results |-> c.filter_results, joins |-> c.joins,
     aggregations |-> c.aggregations, group_by_columns |-> c.group_by_columns,
     is_aggregation_query |-> c.is_aggregation_query]

\* C24: every stage processed on a non-answered agent stores its partial
\* result in the accumulator and leaves the other partial results alone, and
\* the SQLConstruction command returned for SQLAggregation carries them all:
\* the column and table mappings of SQLGrounding, the conditions of SQLFilter,
\* the joins of SQLJoinInference and the aggregation fields of SQLAggregation.
ConstructionCarriesPartials ==
    [][(/\ kind = "SQLBaseAgent"
        /\ ~agent.is_answered
        /\ last'.command.type # agent.previous_command)
        => LET c == last'.command
               old == Partials(agent.constructions)
               new == Partials(agent'.constructions)
           IN CASE c.type = "SQLGrounding" ->
                      new = [old EXCEPT !.column_mappings = c.column_mappings,
                                        !.table_mappings = c.table_mappings]
                [] c.type = "SQLFilter" ->
                      new = [old EXCEPT !.filter_results = c.conditions]
                [] c.type = "SQLJoinInference" ->
                      new = [old EXCEPT !.joins = c.joins]
                [] c.type = "SQLAggregation" ->
                      /\ new = [old EXCEPT
                                   !.aggregations = c.aggregations,
                                   !.group_by_columns = c.group_by_columns,
                                   !.is_aggregation_query = c.is_aggregation_query]
                      /\ last'.raised = "none"
                      /\ last'.ret.type = "SQLConstruction"
                      /\ Partials(last'.ret) = new
                [] OTHER -> new = old]_vars

\* C24 witness: the SQLConstruction command just produced carries the results
\* of all four earlier stages.
ConstructionAssembled ==
    /\ kind = "SQLBaseAgent"
    /\ last.command.type = "SQLAggregation"
    /\ last.ret.type = "SQLConstruction"
    /\ last.ret.column_mappings = Some("column_mappings")
    /\ last.ret.table_mappings = Some("table_mappings")
    /\ last.ret.filter_results = Some("conditions")
    /\ last.ret.joins = Some("joins")
    /\ last.ret.aggregations = Some("aggregations")
    /\ last.ret.group_by_columns = Some("group_by_columns")

(* ----------- single transitions of the agent (domain/model.py) ----------- *)
\* C25: once is_answered is true, no later update call changes agent.response
\* or agent.evaluation.
OutcomeIsFinal ==
    [][(kind = "BaseAgent" /\ agent.is_answered)
        => /\ agent'.response = agent.response
           /\ agent'.evaluation = agent.evaluation]_vars

\* C26: on a non-answered agent whose previous command type is not
\* FinalCheck, update(FinalCheck) sets is_answered, records the Evaluation
\* built from the command's fields and returns None, whatever was processed
\* before.
FinalCheckUnconditional ==
    [][(/\ kind = "BaseAgent"
        /\ ~agent.is_answered
        /\ agent.previous_command # "FinalCheck"
        /\ last'.command.type = "FinalCheck"
        /\ last'.command.approved # None
        /\ last'.command.summary # None)
        => /\ agent'.is_answered
           /\ last'.raised = "none"
           /\ last'.ret = NoCommand
           /\ agent'.evaluation.type = "Evaluation"
           /\ agent'.evaluation.approved = Val(last'.command.approved)
           /\ agent'.evaluation.summary = Val(last'.command.summary)]_vars

\* the stages whose output type the transition table fixes without a branch
FieldBlindTypes == {"Question", "Retrieve", "Rerank", "Enhance", "UseTools"}

\* position of a stage type in the chain
Stage(type) == CHOOSE i \in 1..Len(PipelineTypes) : PipelineTypes[i] = type

EnhanceAsStated ==
    [][(/\ kind = "BaseAgent"
        /\ last'.command.type = "Enhance")
        => LET value == IF last'.command.response = None THEN agent.question
                        ELSE Val(last'.command.response)
           IN /\ last'.ret.type = "UseTools"
              /\ last'.ret.question = value
              /\ agent'.enhancement = Some(value)
              /\ ~agent'.is_answered
              /\ agent'.previous_command = "Enhance"]_vars

\* C29 amended: the same on a non-answered agent whose previous command type
\* is not Enhance.
EnhanceYieldsUseTools ==
    [][(/\ kind = "BaseAgent"
        /\ ~agent.is_answered
        /\ agent.previous_command # "Enhance"
        /\ last'.command.type = "Enhance")
        => LET value == IF last'.command.response = None THEN agent.question
                        ELSE Val(last'.command.response)
           IN /\ last'.raised = "none"
              /\ last'.ret.type = "UseTools"
              /\ last'.ret.question = value
              /\ last'.ret.q_id = last'.command.q_id
              /\ agent'.enhancement = Some(value)
              /\ ~agent'.is_answered
              /\ agent'.previous_command = "Enhance"]_vars

\* C29 witness: an Enhance without response made the agent fall back to the
\* original question, which is not the question of the Enhance command.
EnhanceFellBack ==
    /\ kind = "BaseAgent"
    /\ last.command.type = "Enhance"
    /\ last.command.response = None
    /\ last.command.question # UserQuestion
    /\ last.ret.type = "UseTools"
    /\ last.ret.question = UserQuestion
    /\ agent.enhancement = Some(UserQuestion)

(* ----------- events nobody subscribed to (service_layer/messagebus.py) ----------- *)
\* C30: an event whose type has no registered handlers is dispatched to zero
\* handlers, and bus.handle completes without raising.
UnsubscribedEventIgnored ==
    \A r \in Requests :
        frame[r].message.type \in EventClasses \ DOMAIN event_handlers
            => /\ pc[r] # "raised"
               /\ DispatchedFor(r) = <<>>

(* ----------- the bus loop around notifications ----------- *)
\* the positions of emitted at which an event queued behind the given one stands
Behind(event) ==
    {k \in 1..Len(emitted) : \E k0 \in 1..(k - 1) : emitted[k0] = event}

\* C31: a raising event handler does not stop the bus loop: handle does not
\* raise, and every event queued behind the event whose handler raised is still
\* in the queue or being handled and, once handle has returned, was dispatched
\* after the failure (the Evaluation after a failed Response notification).
EventFailureKeepsLoop ==
    \A i \in 1..Len(dispatched) :
        dispatched[i].raised =>
            LET r == dispatched[i].request IN
            /\ pc[r] # "raised"
            /\ \A k \in Behind(dispatched[i].event) :
                  IF pc[r] = "done"
                  THEN \E j \in (i + 1)..Len(dispatched) :
                          /\ dispatched[j].event = emitted[k]
                          /\ dispatched[j].index = 1
                  ELSE \/ \E q \in 1..Len(queue) : queue[q] = emitted[k]
                       \/ pc[r] = "event" /\ frame[r].event = emitted[k]
                       \/ \E j \in (i + 1)..Len(dispatched) :
                             dispatched[j].event = emitted[k]

\* C31 witness: the Response notification failed, the Evaluation notification
\* of the same request was sent afterwards and handle returned.
EvaluationSentAfterFailedResponse ==
    /\ pc["r1"] = "done"
    /\ \E i \in 1..Len(dispatched) :
          /\ dispatched[i].event.type = "Response"
          /\ dispatched[i].raised
          /\ \E j \in (i + 1)..Len(dispatched) :
                /\ dispatched[j].event.type = "Evaluation"
                /\ ~dispatched[j].raised
    /\ \E n \in 1..Len(sent) : sent[n].event = "Evaluation"

(* ----------- duplicates and unsupported commands (domain/model.py) ----------- *)
\* C32: on a command of the previous command's type update skips the
\* transition table: it returns None without raising and changes nothing of
\* the agent but is_answered and response; previous_command, enhancement,
\* tool_answer, evaluation and the event queue stay as they were.
DuplicateSkipsTable ==
    [][(/\ kind = "BaseAgent"
        /\ last'.command.type = agent.previous_command)
        => /\ last'.raised = "none"
           /\ last'.ret = NoCommand
           /\ agent' = [agent EXCEPT
                           !.is_answered = TRUE,
                           !.response = FailedRequest(agent.question, DuplicateMessage,
                                                      agent.q_id)]]_vars

\* C32 witness: a duplicate concluded an agent that had stored an enhancement
\* and a tool answer, and both are still there.
DuplicateKeptTools ==
    /\ kind = "BaseAgent"
    /\ last.command.type = agent.previous_command
    /\ last.ret = NoCommand
    /\ agent.response.type = "FailedRequest"
    /\ agent.is_answered
    /\ agent.enhancement # None
    /\ agent.tool_answer.type = "UseTools"

\* C33 as stated: update raises NotImplementedError for every command whose
\* type is not one of the eight pipeline types, on any agent.
UnsupportedAlwaysRaises ==
    [][(/\ kind = "BaseAgent"
        /\ last'.command.type \notin CommandTypes \cup {NoType})
        => /\ last'.raised = "NotImplementedError"
           /\ last'.ret = NoCommand]_vars

\* C33 amended: update produces no next command for a command whose type is
\* not one of the eight pipeline types; on a non-answered agent whose previous
\* command type differs it raises NotImplementedError, having recorded the
\* type as the previous command, and otherwise it returns None.
UnsupportedRaises ==
    [][(/\ kind = "BaseAgent"
        /\ last'.command.type \notin CommandTypes \cup {NoType})
        => /\ last'.ret = NoCommand
           /\ IF ~agent.is_answered /\ agent.previous_command # last'.command.type
              THEN /\ last'.raised = "NotImplementedError"
                   /\ agent' = [agent EXCEPT !.previous_command = last'.command.type]
              ELSE /\ last'.raised = "none"
                   /\ agent'.is_answered]_vars

\* C33 witness: a command outside the transition table was refused by an
\* agent that had already processed a stage.
UnsupportedRefused ==
    /\ kind = "BaseAgent"
    /\ last.command.type = OtherType
    /\ last.raised = "NotImplementedError"
    /\ agent.previous_command = OtherType
    /\ agent.tool_answer.type = "UseTools"
    /\ ~agent.is_answered

(* ----------- notifications and the answer loop ----------- *)
\* C34: within one handle(Question) call, whenever an event handler has been
\* invoked or a notification sent, the agent is answered and the call is past
\* the answer loop (draining the queue or returned), so no adapter.answer call
\* follows any notification.
NotifiedOnlyAfterPipeline ==
    \A r \in Requests :
        (DispatchedFor(r) # <<>> \/ (pc[r] # "idle" /\ sent # <<>>))
            => /\ Started(r)
               /\ agents[r].is_answered
               /\ pc[r] \in {"loop", "event", "done"}
               /\ calls[r] # <<>>

\* C34 witness: the first notification of a run is being made, all eight
\* adapter calls behind it.
NotifyingAfterLastAnswer ==
    /\ calls["r1"] = PipelineTypes
    /\ agents["r1"].is_answered
    /\ Len(dispatched) = 1
    /\ dispatched[1].event.type = "Response"
    /\ Len(queue) = 1

\* C35: for a request whose adapter answers all kept the q_id, every event
\* emitted carries the original user question, not a prompt built from it, and
\* the q_id of the request, and every notification goes to that q_id as its
\* destination, with the user question in its message.
EventsCarryQuestion ==
    \A r \in Requests :
        (Started(r) /\ "q_id_changed" \notin observed[r])
            => /\ \A k \in 1..Len(emitted) :
                     /\ emitted[k].type \in EventTypes
                     /\ emitted[k].question = UserQuestion
                     /\ emitted[k].q_id = QIdOf(r)
               /\ \A i \in 1..Len(DispatchedFor(r)) :
                     /\ DispatchedFor(r)[i].event.question = UserQuestion
                     /\ DispatchedFor(r)[i].event.q_id = QIdOf(r)
               /\ \A n \in 1..Len(sent) : sent[n].destination = QIdOf(r)

\* C35 witness: a RejectedRequest built from a Check command, whose question
\* is the pre-check prompt, was sent to the session of the request.
RejectionSentToSession ==
    /\ pc["r1"] = "done"
    /\ "q_id_changed" \notin observed["r1"]
    /\ last.command.type = "Check"
    /\ last.command.question # UserQuestion
    /\ Len(emitted) = 1
    /\ emitted[1].type = "RejectedRequest"
    /\ emitted[1].question = UserQuestion
    /\ Len(sent) >= 1
    /\ sent[1].destination = QIdOf("r1")

\* C36: whenever update returns without raising, either the agent is not
\* answered and the value returned is a pipeline command, or the agent is
\* answered and agent.response is an outcome event.
UpdateReturnsCommandOrOutcome ==
    [][(/\ kind = "BaseAgent"
        /\ last'.command.type # NoType
        /\ last'.raised = "none")
        => \/ /\ ~agent'.is_answered
              /\ last'.ret.type \in CommandTypes
           \/ /\ agent'.is_answered
              /\ agent'.response.type \in EventTypes]_vars

(* ----------- the schema in the SQL chain (domain/sql_model.py) ----------- *)
\* C37: after an approved SQLCheck the SQLGrounding command that update
\* returns carries the schema_info stored from the SQLQuestion.
GroundingCarriesSchema ==
    [][(/\ kind = "SQLBaseAgent"
        /\ ~agent.is_answered
        /\ agent.previous_command # "SQLCheck"
        /\ agent.constructions.schema_info # None
        /\ last'.command.type = "SQLCheck"
        /\ last'.command.approved = Some(TRUE))
        => /\ last'.ret.type = "SQLGrounding"
           /\ last'.ret.schema_info = agent.constructions.schema_info]_vars

(* ----------- the adapter's Rerank stage (adapters/adapter.py) ----------- *)
\* C38: after the Rerank stage the command's candidates are in descending
\* order of their rerank score, are at most n_ranking_candidates many, are each
\* one of the candidates that entered the stage, scored by the ranking, and no
\* candidate left out has a higher score than one that was kept.
RerankKeepsTopN ==
    (last.command.type = "Rerank" /\ last.raised = "none")
        => LET incoming == Val(last.command.candidates)
               out == Val(last.ret.candidates)
               n == agent.rag.n_ranking_candidates
               score(c) == Val(agent.rag.ranking[c.description])
               kept == {incoming[k].id : k \in 1..Len(incoming)}
                          \cap {out[i].id : i \in 1..Len(out)}
           IN /\ Len(out) = IF n < Len(incoming) THEN n ELSE Len(incoming)
              /\ \A i, j \in 1..Len(out) : i < j =>
                    /\ out[i].score >= out[j].score
                    /\ out[i].id # out[j].id
              /\ \A i \in 1..Len(out) :
                    \E k \in 1..Len(incoming) :
                       /\ incoming[k].id = out[i].id
                       /\ incoming[k].name = out[i].name
                       /\ out[i].score = score(incoming[k])
              /\ \A k \in 1..Len(incoming) :
                    incoming[k].id \notin kept =>
                       \A i \in 1..Len(out) : out[i].score >= score(incoming[k])

\* C38 witness: of three candidates that came in with the lowest-ranked first,
\* the two best were kept, best first, and the order differs from the one of
\* the retrieval scores.
RerankedAndCut ==
    /\ kind = "AgentAdapter"
    /\ last.raised = "none"
    /\ last.command.type = "Rerank"
    /\ last.command.candidates # None
    /\ agent.rag.n_ranking_candidates = 2
    /\ Len(Val(last.command.candidates)) = 3
    /\ Len(Val(last.ret.candidates)) = 2
    /\ Val(last.ret.candidates)[1].score > Val(last.ret.candidates)[2].score
    /\ Val(last.ret.candidates)[1].id = Val(last.command.candidates)[3].id
    /\ Val(last.ret.candidates)[2].id = Val(last.command.candidates)[2].id
    /\ RetrievalScore(Val(last.ret.candidates)[1].id)
          < RetrievalScore(Val(last.ret.candidates)[2].id)

====
